---- MODULE Spec2Model ----
(***************************************************************************)
(* Model of tracing01-xdp-simple/trace_load_and_stats.c: the loader and    *)
(* tracepoint attacher, the map resolver, the map-info validator and the   *)
(* per-CPU statistics poller, together with the kernel-side probe that     *)
(* writes the counters the poller reads.                                   *)
(***************************************************************************)
EXTENDS Integers, Sequences, FiniteSets, TLC

(* ---------------------------- bounds ----------------------------------- *)

\* largest interface index used as a map key
MaxKey == 2

\* largest number of possible CPUs the environment reports
MaxCpus == 2

\* number of updates the kernel-side probe makes in one run
MaxWrites == 1

\* the per-scan count of failed reads is exact below this and saturates at it
MaxFails == 2

Keys == 1..MaxKey

Cpus == 1..MaxCpus

(* ------------------------ 64-bit counters ------------------------------ *)

\* a __u64 is four 16-bit limbs, least significant first
Base == 2^16

U64Of(n) == <<n % Base, n \div Base, 0, 0>>

Zero64 == <<0, 0, 0, 0>>

Max64 == <<Base - 1, Base - 1, Base - 1, Base - 1>>

High64 == <<0, 0, 0, Base \div 2>>

\* a variant of the addition that saturates instead of wrapping
Add64_saturating(a, b) ==
    LET s1 == a[1] + b[1]
        s2 == a[2] + b[2] + (s1 \div Base)
        s3 == a[3] + b[3] + (s2 \div Base)
        s4 == a[4] + b[4] + (s3 \div Base)
    IN  IF s4 \div Base > 0 THEN Max64
        ELSE <<s1 % Base, s2 % Base, s3 % Base, s4 % Base>>

\* total += values[i] on __u64: the carry out of the top limb is dropped
Add64(a, b) ==
    LET s1 == a[1] + b[1]
        s2 == a[2] + b[2] + (s1 \div Base)
        s3 == a[3] + b[3] + (s2 \div Base)
        s4 == a[4] + b[4] + (s3 \div Base)
    IN  <<s1 % Base, s2 % Base, s3 % Base, s4 % Base>>

RECURSIVE SumValues(_, _)
\* total = 0; for (i = 0; i < nr_cpus; i++) total += values[i];
SumValues(vals, n) ==
    IF n = 0 THEN Zero64
    ELSE Add64(SumValues(vals, n - 1), vals[n])

(* --------------------------- exit codes -------------------------------- *)

EXIT_OK == 0

EXIT_FAIL == 1

EXIT_FAIL_BPF == 40

(* ------------------------- the kernel table ---------------------------- *)

\* position of key k in the enumeration order ks, 0 when absent
IndexOf(ks, k) ==
    IF \E i \in 1..Len(ks) : ks[i] = k
    THEN CHOOSE i \in 1..Len(ks) : ks[i] = k
    ELSE 0

KeySet(ks) == {ks[i] : i \in 1..Len(ks)}

\* bpf_map_get_next_key on a hash table: with no previous key, or a previous
\* key that is not in the table, the first key; otherwise the key after it;
\* ENOENT (found = FALSE) when there is none
GetNextKey(ks, hasPrev, prev) ==
    LET i == IF hasPrev THEN IndexOf(ks, prev) ELSE 0
    IN  IF i < Len(ks)
        THEN [found |-> TRUE, key |-> ks[i + 1]]
        ELSE [found |-> FALSE, key |-> prev]

\* the orders in which the table enumerates the keys it holds at first:
\* the keys 1..n, ascending or descending
KeyOrders ==
    {[i \in 1..n |-> i] : n \in 0..MaxKey}
      \cup {[i \in 1..n |-> n + 1 - i] : n \in 0..MaxKey}

\* counter contents the probe has accumulated when the table is first seen
InitSlots ==
    [k \in Keys |-> [c \in Cpus |->
        IF k = 1 THEN (IF c = 1 THEN U64Of(10) ELSE U64Of(20))
        ELSE IF k = 2 THEN U64Of(5)
        ELSE Zero64]]

\* metadata a loaded table may report
LiveInfos ==
    [key_size : {4, 8}, value_size : {8, 4}, max_entries : {10}, type : {5}]

NoInfo == [key_size |-> 0, value_size |-> 0, max_entries |-> 0, type |-> 0]

(* ------------------------------ state ---------------------------------- *)

VARIABLES
    pc,            \* position of the single userspace thread
    objState,      \* "none", "opened", "loaded" or "closed": the bpf_object
    progFound,     \* bpf_object__next_program returned a program
    linkAttached,  \* the tracepoint link is established
    closeCount,    \* number of bpf_object__close calls made
    loaderRet,     \* "pending", "NULL" or "obj": value the loader returned
    errKind,       \* the fatal error that occurred, "none" when none did
    stages,        \* the pipeline stages that succeeded, in order
    exitCode,      \* value main returned, meaningful when pc = "exit"
    hasMap,        \* the loaded object holds a map named xdp_stats_map
    mapKeys,       \* the table's keys in the order next-key yields them
    mapVals,       \* the table's per-CPU slots, key -> cpu -> __u64
    mapInfo,       \* the metadata the kernel reports for the table
    stats_map_fd,  \* main's stats_map_fd
    map_expect,    \* main's map_expect
    info,          \* main's info, filled by the validator
    err,           \* main's err: the validator's return value
    reported,      \* the field named by the validator's mismatch message
    infoFetched,   \* bpf_obj_get_info_by_fd succeeded
    envCpus,       \* the number of possible CPUs of the environment
    nr_cpus,       \* stats_print's nr_cpus
    key,           \* stats_print's key, which keyp points to
    prevSet,       \* prev_keyp == keyp (TRUE) or prev_keyp == NULL (FALSE)
    values,        \* stats_print's values array
    ci,            \* number of slots the running lookup has copied
    out,           \* the pairs printed by the running scan
    nlCount,       \* line terminators printed by the running scan
    scanFails,     \* failed reads of the running scan, saturating at MaxFails
    failedKeys,    \* keys whose read failed in the running scan
    justFailed,    \* the last loop iteration ended in a failed read
    scanEnd,       \* "none", "exhausted" or "error": how next-key ended the scan
    enumAfterFail, \* keys next-key returned after the first failed read
    scanStartKeys, \* mapKeys when the running scan started
    scanStartVals, \* mapVals when the running scan started
    held,          \* key -> cpu -> the values the slot held since that start
    activity,      \* which of "scan", "read", "output" ever happened
    writes         \* number of updates the probe has made

loaderVars == <<objState, progFound, linkAttached, closeCount, loaderRet>>

tableVars == <<hasMap, mapKeys, mapVals, mapInfo>>

mainVars == <<stats_map_fd, map_expect, info, err, reported, infoFetched>>

scanVars == <<nr_cpus, key, prevSet, values, ci>>

histVars ==
    <<out, nlCount, scanFails, failedKeys, justFailed, scanEnd,
      enumAfterFail, scanStartKeys, scanStartVals, held>>

vars ==
    <<pc, loaderVars, errKind, stages, exitCode, tableVars, mainVars,
      envCpus, scanVars, histVars, activity, writes>>

ZeroSlots == [c \in Cpus |-> Zero64]

EmptyVals == [k \in Keys |-> ZeroSlots]

EmptyHeld == [k \in Keys |-> [c \in Cpus |-> {}]]

\* the record h of held values extended by the present contents of the table
HeldAfter(h, ks, mv) ==
    [k \in Keys |-> [c \in Cpus |->
        IF k \in KeySet(ks) THEN h[k][c] \cup {mv[k][c]} ELSE h[k][c]]]

\* everything except the program counter and the validator's inputs
InitRest ==
    /\ objState = "none"
    /\ progFound = FALSE
    /\ linkAttached = FALSE
    /\ closeCount = 0
    /\ loaderRet = "pending"
    /\ errKind = "none"
    /\ stages = <<>>
    /\ exitCode = EXIT_OK
    /\ hasMap = FALSE
    /\ mapKeys = <<>>
    /\ mapVals = EmptyVals
    /\ info = NoInfo
    /\ err = 0
    /\ reported = "none"
    /\ infoFetched = FALSE
    /\ nr_cpus = 0
    /\ key = 0
    /\ prevSet = FALSE
    /\ values = ZeroSlots
    /\ ci = 0
    /\ out = <<>>
    /\ nlCount = 0
    /\ scanFails = 0
    /\ failedKeys = {}
    /\ justFailed = FALSE
    /\ scanEnd = "none"
    /\ enumAfterFail = {}
    /\ scanStartKeys = <<>>
    /\ scanStartVals = EmptyVals
    /\ held = EmptyHeld
    /\ activity = {}
    /\ writes = 0

\* main before load_bpf_and_trace_attach is called
Init ==
    /\ pc = "open"
    /\ mapInfo = NoInfo
    /\ stats_map_fd = 0
    /\ map_expect = NoInfo
    /\ envCpus \in Cpus
    /\ InitRest

(* --------------------- load_bpf_and_trace_attach ----------------------- *)

\* bpf_object__open_file succeeds
OpenOk ==
    /\ pc = "open"
    /\ objState' = "opened"
    /\ pc' = "load"
    /\ UNCHANGED <<progFound, linkAttached, closeCount, loaderRet, errKind,
                   stages, exitCode, tableVars, mainVars, envCpus, scanVars,
                   histVars, activity, writes>>

\* bpf_object__open_file fails: return NULL
OpenFail ==
    /\ pc = "open"
    /\ errKind' = "LoadOpenError"
    /\ loaderRet' = "NULL"
    /\ pc' = "main_load_ret"
    /\ UNCHANGED <<objState, progFound, linkAttached, closeCount, stages,
                   exitCode, tableVars, mainVars, envCpus, scanVars,
                   histVars, activity, writes>>

\* bpf_object__load succeeds: the object's tables now exist in the kernel
LoadOk ==
    /\ pc = "load"
    /\ objState' = "loaded"
    /\ \E present \in BOOLEAN :
         /\ hasMap' = present
         /\ IF present
            THEN \E ks \in KeyOrders, li \in LiveInfos :
                   /\ mapKeys' = ks
                   /\ mapVals' = [k \in Keys |->
                                    IF k \in KeySet(ks) THEN InitSlots[k]
                                    ELSE ZeroSlots]
                   /\ mapInfo' = li
            ELSE UNCHANGED <<mapKeys, mapVals, mapInfo>>
    /\ pc' = "next_program"
    /\ UNCHANGED <<progFound, linkAttached, closeCount, loaderRet, errKind,
                   stages, exitCode, mainVars, envCpus, scanVars, histVars,
                   activity, writes>>

\* a variant in which a rejected load returns NULL without closing the object
LoadFail_leaks ==
    /\ pc = "load"
    /\ errKind' = "VerifierRejectError"
    /\ loaderRet' = "NULL"
    /\ pc' = "main_load_ret"
    /\ UNCHANGED <<objState, progFound, linkAttached, closeCount, stages,
                   exitCode, tableVars, mainVars, envCpus, scanVars,
                   histVars, activity, writes>>

\* bpf_object__load fails: goto err
LoadFail ==
    /\ pc = "load"
    /\ errKind' = "VerifierRejectError"
    /\ pc' = "err"
    /\ UNCHANGED <<loaderVars, stages, exitCode, tableVars, mainVars,
                   envCpus, scanVars, histVars, activity, writes>>

\* bpf_object__next_program returns the first program
ProgramFound ==
    /\ pc = "next_program"
    /\ progFound' = TRUE
    /\ pc' = "attach"
    /\ UNCHANGED <<objState, linkAttached, closeCount, loaderRet, errKind,
                   stages, exitCode, tableVars, mainVars, envCpus, scanVars,
                   histVars, activity, writes>>

\* bpf_object__next_program returns NULL: goto err
ProgramNotFound ==
    /\ pc = "next_program"
    /\ errKind' = "ProgramNotFoundError"
    /\ pc' = "err"
    /\ UNCHANGED <<loaderVars, stages, exitCode, tableVars, mainVars,
                   envCpus, scanVars, histVars, activity, writes>>

\* bpf_program__attach_tracepoint succeeds: return obj
AttachOk ==
    /\ pc = "attach"
    /\ linkAttached' = TRUE
    /\ loaderRet' = "obj"
    /\ pc' = "main_load_ret"
    /\ UNCHANGED <<objState, progFound, closeCount, errKind, stages,
                   exitCode, tableVars, mainVars, envCpus, scanVars,
                   histVars, activity, writes>>

\* a variant in which a failed attach still hands the object to the caller
AttachFail_returnsObj ==
    /\ pc = "attach"
    /\ errKind' = "AttachError"
    /\ loaderRet' = "obj"
    /\ pc' = "main_load_ret"
    /\ UNCHANGED <<objState, progFound, linkAttached, closeCount, stages,
                   exitCode, tableVars, mainVars, envCpus, scanVars,
                   histVars, activity, writes>>

\* bpf_program__attach_tracepoint fails: goto err
AttachFail ==
    /\ pc = "attach"
    /\ errKind' = "AttachError"
    /\ pc' = "err"
    /\ UNCHANGED <<loaderVars, stages, exitCode, tableVars, mainVars,
                   envCpus, scanVars, histVars, activity, writes>>

\* err: bpf_object__close(obj); return NULL
ErrClose ==
    /\ pc = "err"
    /\ objState' = "closed"
    /\ closeCount' = closeCount + 1
    /\ loaderRet' = "NULL"
    /\ pc' = "main_load_ret"
    /\ UNCHANGED <<progFound, linkAttached, errKind, stages, exitCode,
                   tableVars, mainVars, envCpus, scanVars, histVars,
                   activity, writes>>

(* ------------------------ __check_map_fd_info -------------------------- *)

\* a variant that compares max_entries before the two sizes
CheckMapFdInfo_reordered(map_fd, fetched, live, exp) ==
    IF map_fd < 0 THEN [ret |-> EXIT_FAIL, field |-> "none"]
    ELSE IF ~fetched THEN [ret |-> EXIT_FAIL_BPF, field |-> "none"]
    ELSE IF exp.max_entries # 0 /\ exp.max_entries # live.max_entries
    THEN [ret |-> EXIT_FAIL, field |-> "max_entries"]
    ELSE IF exp.key_size # 0 /\ exp.key_size # live.key_size
    THEN [ret |-> EXIT_FAIL, field |-> "key_size"]
    ELSE IF exp.value_size # 0 /\ exp.value_size # live.value_size
    THEN [ret |-> EXIT_FAIL, field |-> "value_size"]
    ELSE IF exp.type # 0 /\ exp.type # live.type
    THEN [ret |-> EXIT_FAIL, field |-> "type"]
    ELSE [ret |-> 0, field |-> "none"]

\* a variant that takes a zero max_entries expectation literally
CheckMapFdInfo_literalZero(map_fd, fetched, live, exp) ==
    IF map_fd < 0 THEN [ret |-> EXIT_FAIL, field |-> "none"]
    ELSE IF ~fetched THEN [ret |-> EXIT_FAIL_BPF, field |-> "none"]
    ELSE IF exp.key_size # 0 /\ exp.key_size # live.key_size
    THEN [ret |-> EXIT_FAIL, field |-> "key_size"]
    ELSE IF exp.value_size # 0 /\ exp.value_size # live.value_size
    THEN [ret |-> EXIT_FAIL, field |-> "value_size"]
    ELSE IF exp.max_entries # live.max_entries
    THEN [ret |-> EXIT_FAIL, field |-> "max_entries"]
    ELSE IF exp.type # 0 /\ exp.type # live.type
    THEN [ret |-> EXIT_FAIL, field |-> "type"]
    ELSE [ret |-> 0, field |-> "none"]

\* the return value of __check_map_fd_info and the field its message names;
\* fetched is the outcome of bpf_obj_get_info_by_fd, live what it stores
CheckMapFdInfo(map_fd, fetched, live, exp) ==
    IF map_fd < 0 THEN [ret |-> EXIT_FAIL, field |-> "none"]
    ELSE IF ~fetched THEN [ret |-> EXIT_FAIL_BPF, field |-> "none"]
    ELSE IF exp.key_size # 0 /\ exp.key_size # live.key_size
    THEN [ret |-> EXIT_FAIL, field |-> "key_size"]
    ELSE IF exp.value_size # 0 /\ exp.value_size # live.value_size
    THEN [ret |-> EXIT_FAIL, field |-> "value_size"]
    ELSE IF exp.max_entries # 0 /\ exp.max_entries # live.max_entries
    THEN [ret |-> EXIT_FAIL, field |-> "max_entries"]
    ELSE IF exp.type # 0 /\ exp.type # live.type
    THEN [ret |-> EXIT_FAIL, field |-> "type"]
    ELSE [ret |-> 0, field |-> "none"]

\* what *info holds after the call
InfoAfter(map_fd, fetched, live, old) ==
    IF map_fd >= 0 /\ fetched THEN live ELSE old

(* ------------------------------- main ---------------------------------- *)

\* a variant that returns the generic failure code
MainLoadFailed_generic ==
    /\ pc = "main_load_ret"
    /\ loaderRet = "NULL"
    /\ pc' = "exit"
    /\ exitCode' = EXIT_FAIL
    /\ UNCHANGED <<loaderVars, errKind, stages, tableVars, mainVars, envCpus,
                   scanVars, histVars, activity, writes>>

\* if (!bpf_obj) return EXIT_FAIL_BPF;
MainLoadFailed ==
    /\ pc = "main_load_ret"
    /\ loaderRet = "NULL"
    /\ pc' = "exit"
    /\ exitCode' = EXIT_FAIL_BPF
    /\ UNCHANGED <<loaderVars, errKind, stages, tableVars, mainVars, envCpus,
                   scanVars, histVars, activity, writes>>

\* a variant that goes on whatever the loader returned
MainLoadOk_noNullCheck ==
    /\ pc = "main_load_ret"
    /\ loaderRet \in {"obj", "NULL"}
    /\ stages' = Append(stages, "load")
    /\ pc' = "find_map"
    /\ UNCHANGED <<loaderVars, errKind, exitCode, tableVars, mainVars,
                   envCpus, scanVars, histVars, activity, writes>>

\* the loader returned an object: go on to find_map_fd
MainLoadOk ==
    /\ pc = "main_load_ret"
    /\ loaderRet = "obj"
    /\ stages' = Append(stages, "load")
    /\ pc' = "find_map"
    /\ UNCHANGED <<loaderVars, errKind, exitCode, tableVars, mainVars,
                   envCpus, scanVars, histVars, activity, writes>>

\* find_map_fd: bpf_map__fd of the map found by name, -1 when there is none
FindMapFd(found) == IF found THEN 3 ELSE -1

\* find_map_fd returns a descriptor
FindMapOk ==
    /\ pc = "find_map"
    /\ FindMapFd(hasMap) >= 0
    /\ stats_map_fd' = FindMapFd(hasMap)
    /\ stages' = Append(stages, "resolve")
    /\ pc' = "check_info"
    /\ UNCHANGED <<loaderVars, errKind, exitCode, tableVars, map_expect,
                   info, err, reported, infoFetched, envCpus, scanVars,
                   histVars, activity, writes>>

\* a variant that returns the generic failure code
FindMapFail_generic ==
    /\ pc = "find_map"
    /\ FindMapFd(hasMap) < 0
    /\ stats_map_fd' = FindMapFd(hasMap)
    /\ errKind' = "TableNotFoundError"
    /\ pc' = "exit"
    /\ exitCode' = EXIT_FAIL
    /\ UNCHANGED <<loaderVars, stages, tableVars, map_expect, info, err,
                   reported, infoFetched, envCpus, scanVars, histVars,
                   activity, writes>>

\* find_map_fd returns -1: return EXIT_FAIL_BPF
FindMapFail ==
    /\ pc = "find_map"
    /\ FindMapFd(hasMap) < 0
    /\ stats_map_fd' = FindMapFd(hasMap)
    /\ errKind' = "TableNotFoundError"
    /\ pc' = "exit"
    /\ exitCode' = EXIT_FAIL_BPF
    /\ UNCHANGED <<loaderVars, stages, tableVars, map_expect, info, err,
                   reported, infoFetched, envCpus, scanVars, histVars,
                   activity, writes>>

\* map_expect.key_size = sizeof(__s32); map_expect.value_size = sizeof(__u64)
MainExpect(old) == [old EXCEPT !.key_size = 4, !.value_size = 8]

\* __check_map_fd_info returns 0: go on to stats_poll
CheckInfoPass ==
    /\ pc = "check_info"
    /\ \E fetched \in BOOLEAN :
         LET r == CheckMapFdInfo(stats_map_fd, fetched, mapInfo,
                                 MainExpect(map_expect))
         IN  /\ r.ret = 0
             /\ map_expect' = MainExpect(map_expect)
             /\ info' = InfoAfter(stats_map_fd, fetched, mapInfo, info)
             /\ err' = r.ret
             /\ reported' = r.field
             /\ infoFetched' = fetched
    /\ stages' = Append(stages, "validate")
    /\ pc' = "poll"
    /\ UNCHANGED <<loaderVars, errKind, exitCode, tableVars, stats_map_fd,
                   envCpus, scanVars, histVars, activity, writes>>

\* a variant in which main ignores the validator's verdict
CheckInfoFail_ignored ==
    /\ pc = "check_info"
    /\ \E fetched \in BOOLEAN :
         LET r == CheckMapFdInfo(stats_map_fd, fetched, mapInfo,
                                 MainExpect(map_expect))
         IN  /\ r.ret # 0
             /\ map_expect' = MainExpect(map_expect)
             /\ info' = InfoAfter(stats_map_fd, fetched, mapInfo, info)
             /\ err' = r.ret
             /\ reported' = r.field
             /\ infoFetched' = fetched
             /\ errKind' = IF r.field # "none" THEN "SchemaMismatchError"
                           ELSE "InfoFetchError"
    /\ pc' = "poll"
    /\ UNCHANGED <<loaderVars, stages, exitCode, tableVars, stats_map_fd,
                   envCpus, scanVars, histVars, activity, writes>>

\* __check_map_fd_info returns non-zero: return err
CheckInfoFail ==
    /\ pc = "check_info"
    /\ \E fetched \in BOOLEAN :
         LET r == CheckMapFdInfo(stats_map_fd, fetched, mapInfo,
                                 MainExpect(map_expect))
         IN  /\ r.ret # 0
             /\ map_expect' = MainExpect(map_expect)
             /\ info' = InfoAfter(stats_map_fd, fetched, mapInfo, info)
             /\ err' = r.ret
             /\ reported' = r.field
             /\ infoFetched' = fetched
             /\ errKind' = IF r.field # "none" THEN "SchemaMismatchError"
                           ELSE "InfoFetchError"
             /\ exitCode' = r.ret
    /\ pc' = "exit"
    /\ UNCHANGED <<loaderVars, stages, tableVars, stats_map_fd, envCpus,
                   scanVars, histVars, activity, writes>>

(* ----------------------------- stats_poll ------------------------------ *)

\* stats_poll is entered: setlocale, then the first stats_print
StatsPollEnter ==
    /\ pc = "poll"
    /\ pc' = "scan_begin"
    /\ UNCHANGED <<loaderVars, errKind, stages, exitCode, tableVars,
                   mainVars, envCpus, scanVars, histVars, activity, writes>>

\* a variant that queries the CPU count in the first cycle only
ScanBegin_cachedCpus ==
    /\ pc = "scan_begin"
    /\ nr_cpus' = IF nr_cpus = 0 THEN envCpus ELSE nr_cpus
    /\ values' = ZeroSlots
    /\ key' = 0
    /\ prevSet' = FALSE
    /\ ci' = 0
    /\ out' = <<>>
    /\ nlCount' = 0
    /\ scanFails' = 0
    /\ failedKeys' = {}
    /\ justFailed' = FALSE
    /\ scanEnd' = "none"
    /\ enumAfterFail' = {}
    /\ scanStartKeys' = mapKeys
    /\ scanStartVals' = mapVals
    /\ held' = HeldAfter(EmptyHeld, mapKeys, mapVals)
    /\ activity' = activity \cup {"scan"}
    /\ pc' = "next_key"
    /\ UNCHANGED <<loaderVars, errKind, stages, exitCode, tableVars,
                   mainVars, envCpus, writes>>

\* stats_print is entered: nr_cpus is queried, prev_keyp = NULL
ScanBegin ==
    /\ pc = "scan_begin"
    /\ nr_cpus' = envCpus
    /\ values' = ZeroSlots
    /\ key' = 0
    /\ prevSet' = FALSE
    /\ ci' = 0
    /\ out' = <<>>
    /\ nlCount' = 0
    /\ scanFails' = 0
    /\ failedKeys' = {}
    /\ justFailed' = FALSE
    /\ scanEnd' = "none"
    /\ enumAfterFail' = {}
    /\ scanStartKeys' = mapKeys
    /\ scanStartVals' = mapVals
    /\ held' = HeldAfter(EmptyHeld, mapKeys, mapVals)
    /\ activity' = activity \cup {"scan"}
    /\ pc' = "next_key"
    /\ UNCHANGED <<loaderVars, errKind, stages, exitCode, tableVars,
                   mainVars, envCpus, writes>>

\* bpf_map_get_next_key(map_fd, prev_keyp, keyp) stores the next key in key
NextKeyFound ==
    /\ pc = "next_key"
    /\ LET r == GetNextKey(mapKeys, prevSet, key)
       IN  /\ r.found
           /\ key' = r.key
           /\ enumAfterFail' = IF scanFails > 0
                               THEN enumAfterFail \cup {r.key}
                               ELSE enumAfterFail
    /\ justFailed' = FALSE
    /\ ci' = 0
    /\ pc' = "lookup"
    /\ UNCHANGED <<loaderVars, errKind, stages, exitCode, tableVars,
                   mainVars, envCpus, nr_cpus, prevSet, values, out, nlCount,
                   scanFails, failedKeys, scanEnd, scanStartKeys,
                   scanStartVals, held, activity, writes>>

\* bpf_map_get_next_key fails with ENOENT: break
NextKeyExhausted ==
    /\ pc = "next_key"
    /\ ~GetNextKey(mapKeys, prevSet, key).found
    /\ scanEnd' = "exhausted"
    /\ justFailed' = FALSE
    /\ pc' = "newline"
    /\ UNCHANGED <<loaderVars, errKind, stages, exitCode, tableVars,
                   mainVars, envCpus, scanVars, out, nlCount, scanFails,
                   failedKeys, enumAfterFail, scanStartKeys, scanStartVals,
                   held, activity, writes>>

\* a variant that returns from stats_print instead of leaving the loop
NextKeyError_returns ==
    /\ pc = "next_key"
    /\ scanEnd' = "error"
    /\ justFailed' = FALSE
    /\ pc' = "sleep"
    /\ UNCHANGED <<loaderVars, errKind, stages, exitCode, tableVars,
                   mainVars, envCpus, scanVars, out, nlCount, scanFails,
                   failedKeys, enumAfterFail, scanStartKeys, scanStartVals,
                   held, activity, writes>>

\* bpf_map_get_next_key fails with another errno: break
NextKeyError ==
    /\ pc = "next_key"
    /\ scanEnd' = "error"
    /\ justFailed' = FALSE
    /\ pc' = "newline"
    /\ UNCHANGED <<loaderVars, errKind, stages, exitCode, tableVars,
                   mainVars, envCpus, scanVars, out, nlCount, scanFails,
                   failedKeys, enumAfterFail, scanStartKeys, scanStartVals,
                   held, activity, writes>>

\* a variant in which a failed read leaves the loop
LookupFail_breaks ==
    /\ pc = "lookup"
    /\ ci = 0
    /\ scanFails' = IF scanFails < MaxFails THEN scanFails + 1 ELSE scanFails
    /\ failedKeys' = failedKeys \cup {key}
    /\ justFailed' = TRUE
    /\ activity' = activity \cup {"read"}
    /\ pc' = "newline"
    /\ UNCHANGED <<loaderVars, errKind, stages, exitCode, tableVars,
                   mainVars, envCpus, scanVars, out, nlCount, scanEnd,
                   enumAfterFail, scanStartKeys, scanStartVals, held,
                   writes>>

\* bpf_map_lookup_elem fails: the diagnostic, then continue
LookupFail ==
    /\ pc = "lookup"
    /\ ci = 0
    /\ scanFails' = IF scanFails < MaxFails THEN scanFails + 1 ELSE scanFails
    /\ failedKeys' = failedKeys \cup {key}
    /\ justFailed' = TRUE
    /\ activity' = activity \cup {"read"}
    /\ pc' = "next_key"
    /\ UNCHANGED <<loaderVars, errKind, stages, exitCode, tableVars,
                   mainVars, envCpus, scanVars, out, nlCount, scanEnd,
                   enumAfterFail, scanStartKeys, scanStartVals, held,
                   writes>>

\* a variant that clears each slot it has read
LookupCopy_resets ==
    /\ pc = "lookup"
    /\ ci < nr_cpus
    /\ values' = [values EXCEPT ![ci + 1] = mapVals[key][ci + 1]]
    /\ mapVals' = [mapVals EXCEPT ![key][ci + 1] = Zero64]
    /\ ci' = ci + 1
    /\ activity' = activity \cup {"read"}
    /\ pc' = IF ci + 1 = nr_cpus THEN "sum" ELSE "lookup"
    /\ UNCHANGED <<loaderVars, errKind, stages, exitCode, hasMap, mapKeys,
                   mapInfo, mainVars, envCpus, nr_cpus, key, prevSet, histVars,
                   writes>>

\* a variant that copies the slot of the first CPU into every position
LookupCopy_sameSlot ==
    /\ pc = "lookup"
    /\ ci < nr_cpus
    /\ values' = [values EXCEPT ![ci + 1] = mapVals[key][1]]
    /\ ci' = ci + 1
    /\ activity' = activity \cup {"read"}
    /\ pc' = IF ci + 1 = nr_cpus THEN "sum" ELSE "lookup"
    /\ UNCHANGED <<loaderVars, errKind, stages, exitCode, tableVars,
                   mainVars, envCpus, nr_cpus, key, prevSet, histVars,
                   writes>>

\* bpf_map_lookup_elem copies the slot of the next CPU into values; the
\* probe may update the entry between two slots
LookupCopy ==
    /\ pc = "lookup"
    /\ ci < nr_cpus
    /\ values' = [values EXCEPT ![ci + 1] = mapVals[key][ci + 1]]
    /\ ci' = ci + 1
    /\ activity' = activity \cup {"read"}
    /\ pc' = IF ci + 1 = nr_cpus THEN "sum" ELSE "lookup"
    /\ UNCHANGED <<loaderVars, errKind, stages, exitCode, tableVars,
                   mainVars, envCpus, nr_cpus, key, prevSet, histVars,
                   writes>>

\* the pair printf writes for the entry just read: the key, whose name
\* if_indextoname resolves when the pair is printed, its total, and the
\* slots the total was computed from
Pair(k, vals, n) ==
    [key |-> k, total |-> SumValues(vals, n), vals |-> [i \in 1..n |-> vals[i]]]

\* a variant that forgets prev_keyp = keyp
SumPrint_keepsPrev ==
    /\ pc = "sum"
    /\ out' = Append(out, Pair(key, values, nr_cpus))
    /\ ci' = 0
    /\ activity' = activity \cup {"output"}
    /\ pc' = "next_key"
    /\ UNCHANGED <<loaderVars, errKind, stages, exitCode, tableVars,
                   mainVars, envCpus, nr_cpus, key, prevSet, values, nlCount,
                   scanFails, failedKeys, justFailed, scanEnd, enumAfterFail,
                   scanStartKeys, scanStartVals, held, writes>>

\* a variant that ends the line after every pair
SumPrint_newlinePerPair ==
    /\ pc = "sum"
    /\ out' = Append(out, Pair(key, values, nr_cpus))
    /\ nlCount' = nlCount + 1
    /\ prevSet' = TRUE
    /\ ci' = 0
    /\ activity' = activity \cup {"output"}
    /\ pc' = "next_key"
    /\ UNCHANGED <<loaderVars, errKind, stages, exitCode, tableVars,
                   mainVars, envCpus, nr_cpus, key, values, scanFails,
                   failedKeys, justFailed, scanEnd, enumAfterFail,
                   scanStartKeys, scanStartVals, held, writes>>

\* the slots are summed, the pair is printed, prev_keyp = keyp
SumPrint ==
    /\ pc = "sum"
    /\ out' = Append(out, Pair(key, values, nr_cpus))
    /\ prevSet' = TRUE
    /\ ci' = 0
    /\ activity' = activity \cup {"output"}
    /\ pc' = "next_key"
    /\ UNCHANGED <<loaderVars, errKind, stages, exitCode, tableVars,
                   mainVars, envCpus, nr_cpus, key, values, nlCount,
                   scanFails, failedKeys, justFailed, scanEnd, enumAfterFail,
                   scanStartKeys, scanStartVals, held, writes>>

\* printf("\n") ends stats_print
Newline ==
    /\ pc = "newline"
    /\ nlCount' = nlCount + 1
    /\ activity' = activity \cup {"output"}
    /\ pc' = "sleep"
    /\ UNCHANGED <<loaderVars, errKind, stages, exitCode, tableVars,
                   mainVars, envCpus, scanVars, out, scanFails, failedKeys,
                   justFailed, scanEnd, enumAfterFail, scanStartKeys,
                   scanStartVals, held, writes>>

\* a variant in which the loop ends after one cycle and main returns
Sleep_returns ==
    /\ pc = "sleep"
    /\ pc' = "exit"
    /\ exitCode' = EXIT_OK
    /\ UNCHANGED <<loaderVars, errKind, stages, tableVars, mainVars, envCpus,
                   scanVars, histVars, activity, writes>>

\* sleep(interval) returns and the while (1) loop calls stats_print again
Sleep ==
    /\ pc = "sleep"
    /\ pc' = "scan_begin"
    /\ UNCHANGED <<loaderVars, errKind, stages, exitCode, tableVars,
                   mainVars, envCpus, scanVars, histVars, activity, writes>>

(* --------------------------- the environment --------------------------- *)

\* the number of possible CPUs changes while the poller sleeps
EnvSetCpus ==
    /\ pc = "sleep"
    /\ \E c \in Cpus \ {envCpus} : envCpus' = c
    /\ UNCHANGED <<pc, loaderVars, errKind, stages, exitCode, tableVars,
                   mainVars, scanVars, histVars, activity, writes>>

\* the probe runs while it is attached and its table exists
WriterLive ==
    /\ linkAttached
    /\ objState = "loaded"
    /\ hasMap
    /\ pc # "exit"

\* the probe increments the slot of the CPU it runs on
KernIncrement ==
    /\ WriterLive
    /\ writes < MaxWrites
    /\ \E k \in KeySet(mapKeys), c \in 1..envCpus :
         mapVals' = [mapVals EXCEPT ![k][c] = Add64(@, U64Of(1))]
    /\ writes' = writes + 1
    /\ held' = IF "scan" \in activity
               THEN HeldAfter(held, mapKeys, mapVals') ELSE held
    /\ UNCHANGED <<pc, loaderVars, errKind, stages, exitCode, hasMap,
                   mapKeys, mapInfo, mainVars, envCpus, scanVars, out,
                   nlCount, scanFails, failedKeys, justFailed, scanEnd,
                   enumAfterFail, scanStartKeys, scanStartVals, activity>>

\* ks with k put at position p + 1
InsertAt(ks, p, k) == SubSeq(ks, 1, p) \o <<k>> \o SubSeq(ks, p + 1, Len(ks))

\* the probe creates the entry of a key it sees for the first time
KernInsert ==
    /\ WriterLive
    /\ writes < MaxWrites
    /\ \E k \in Keys \ KeySet(mapKeys), p \in {0, Len(mapKeys)},
          c \in 1..envCpus :
         /\ mapKeys' = InsertAt(mapKeys, p, k)
         /\ mapVals' = [mapVals EXCEPT ![k] =
                          [ZeroSlots EXCEPT ![c] = U64Of(1)]]
    /\ writes' = writes + 1
    /\ held' = IF "scan" \in activity
               THEN HeldAfter(held, mapKeys', mapVals') ELSE held
    /\ UNCHANGED <<pc, loaderVars, errKind, stages, exitCode, hasMap,
                   mapInfo, mainVars, envCpus, scanVars, out, nlCount,
                   scanFails, failedKeys, justFailed, scanEnd,
                   enumAfterFail, scanStartKeys, scanStartVals, activity>>

(* --------------------------- specification ----------------------------- *)

\* the steps of the userspace process
Program ==
    \/ OpenOk \/ OpenFail \/ LoadOk \/ LoadFail
    \/ ProgramFound \/ ProgramNotFound \/ AttachOk \/ AttachFail \/ ErrClose
    \/ MainLoadFailed \/ MainLoadOk \/ FindMapOk \/ FindMapFail
    \/ CheckInfoPass \/ CheckInfoFail
    \/ StatsPollEnter \/ ScanBegin
    \/ NextKeyFound \/ NextKeyExhausted \/ NextKeyError
    \/ LookupFail \/ LookupCopy \/ SumPrint \/ Newline \/ Sleep

Next ==
    \/ OpenOk \/ OpenFail \/ LoadOk \/ LoadFail
    \/ ProgramFound \/ ProgramNotFound \/ AttachOk \/ AttachFail \/ ErrClose
    \/ MainLoadFailed \/ MainLoadOk \/ FindMapOk \/ FindMapFail
    \/ CheckInfoPass \/ CheckInfoFail
    \/ StatsPollEnter \/ ScanBegin
    \/ NextKeyFound \/ NextKeyExhausted \/ NextKeyError
    \/ LookupFail \/ LookupCopy \/ SumPrint \/ Newline \/ Sleep
    \/ EnvSetCpus \/ KernIncrement \/ KernInsert

Spec == Init /\ [][Next]_vars

(* ------------------ __check_map_fd_info on its own --------------------- *)

\* expectations a caller may pass
Expectations ==
    [key_size : {0, 4, 8}, value_size : {0, 4, 8}, max_entries : {0, 10, 20},
     type : {0, 5, 6}]

\* metadata the kernel may report
ValidatorInfos ==
    [key_size : {4, 8}, value_size : {4, 8}, max_entries : {10, 20},
     type : {5, 6}]

\* a caller about to call __check_map_fd_info(map_fd, &info, &exp)
ValidatorInit ==
    /\ pc = "v_call"
    /\ mapInfo \in ValidatorInfos
    /\ stats_map_fd \in {-1, 3}
    /\ map_expect \in Expectations
    /\ envCpus = 1
    /\ InitRest

\* the call and its return
ValidatorCall ==
    /\ pc = "v_call"
    /\ \E fetched \in BOOLEAN :
         LET r == CheckMapFdInfo(stats_map_fd, fetched, mapInfo, map_expect)
         IN  /\ err' = r.ret
             /\ reported' = r.field
             /\ info' = InfoAfter(stats_map_fd, fetched, mapInfo, info)
             /\ infoFetched' = fetched
    /\ pc' = "v_done"
    /\ UNCHANGED <<loaderVars, errKind, stages, exitCode, tableVars,
                   stats_map_fd, map_expect, envCpus, scanVars, histVars,
                   activity, writes>>

ValidatorSpec == ValidatorInit /\ [][ValidatorCall]_vars

(* ---------------------- the summing loop on its own --------------------- *)

\* slot contents an entry may hold
SlotValues == {Zero64, U64Of(1), U64Of(5), U64Of(20), High64, Max64}

\* stats_print has just read the only entry of the table, whose slots hold
\* arbitrary counters, and is about to sum them
SumInit ==
    /\ pc = "sum"
    /\ objState = "loaded"
    /\ progFound = TRUE
    /\ linkAttached = TRUE
    /\ closeCount = 0
    /\ loaderRet = "obj"
    /\ errKind = "none"
    /\ stages = <<"load", "resolve", "validate">>
    /\ exitCode = EXIT_OK
    /\ hasMap = TRUE
    /\ mapKeys = <<1>>
    /\ \E slots \in [Cpus -> SlotValues] :
         mapVals = [EmptyVals EXCEPT ![1] = slots]
    /\ mapInfo \in {li \in LiveInfos : li.key_size = 4 /\ li.value_size = 8}
    /\ stats_map_fd = FindMapFd(TRUE)
    /\ map_expect = MainExpect(NoInfo)
    /\ info = mapInfo
    /\ err = 0
    /\ reported = "none"
    /\ infoFetched = TRUE
    /\ envCpus \in Cpus
    /\ nr_cpus = envCpus
    /\ key = 1
    /\ prevSet = FALSE
    /\ values = [c \in Cpus |-> IF c <= nr_cpus THEN mapVals[1][c] ELSE Zero64]
    /\ ci = nr_cpus
    /\ out = <<>>
    /\ nlCount = 0
    /\ scanFails = 0
    /\ failedKeys = {}
    /\ justFailed = FALSE
    /\ scanEnd = "none"
    /\ enumAfterFail = {}
    /\ scanStartKeys = mapKeys
    /\ scanStartVals = mapVals
    /\ held = HeldAfter(EmptyHeld, mapKeys, mapVals)
    /\ activity = {"scan", "read"}
    /\ writes = MaxWrites

SumSpec == SumInit /\ [][SumPrint]_vars

\* the positions inside stats_poll
PollPcs == {"poll", "scan_begin", "next_key", "lookup", "sum", "newline", "sleep"}

\* the errors of load_bpf_and_trace_attach
LoaderErrors ==
    {"LoadOpenError", "VerifierRejectError", "ProgramNotFoundError",
     "AttachError"}

(* ------------------------------ loader --------------------------------- *)

\* C1: the loader returns the object only when open, kernel load, selection
\* of the first program and the tracepoint attach have all succeeded, and it
\* returns NULL whenever one of these four steps has failed.
C1_NoPartialSuccess ==
    loaderRet # "pending" =>
        /\ loaderRet = "obj" <=>
             (objState = "loaded" /\ progFound /\ linkAttached)
        /\ loaderRet = "NULL" <=>
             (\/ errKind \in LoaderErrors
              \/ objState # "loaded" \/ ~progFound \/ ~linkAttached)
        /\ errKind \in LoaderErrors => loaderRet = "NULL"

\* the attach, the last of the four steps, failed and the loader returned NULL
C1_Witness ==
    /\ pc = "main_load_ret"
    /\ errKind = "AttachError"
    /\ progFound
    /\ loaderRet = "NULL"

\* C2: when the loader returns after a failure that followed a successful
\* open (load rejected, no program, attach failed) it has closed the object
\* exactly once; when open failed it has closed nothing; on success it has
\* not closed the object.
C2_ReleaseOnFailure ==
    /\ closeCount <= 1
    /\ loaderRet # "pending" =>
        /\ errKind \in LoaderErrors \ {"LoadOpenError"} =>
             (closeCount = 1 /\ objState = "closed")
        /\ errKind = "LoadOpenError" => (closeCount = 0 /\ objState = "none")
        /\ loaderRet = "obj" => (closeCount = 0 /\ objState = "loaded")

\* the kernel rejected the load and the loader returned after one close
C2_Witness ==
    /\ pc = "main_load_ret"
    /\ errKind = "VerifierRejectError"
    /\ closeCount = 1
    /\ objState = "closed"

\* C3: scans, table reads and output happen only after the loader, the
\* resolver and the validator have succeeded in that order; once a fatal
\* error has occurred no scan, read or output ever happens and every step the
\* process can still take, of which there is always one, brings it to its
\* exit.
C3_PollOnlyAfterPipeline ==
    /\ [](errKind # "none" =>
            (activity = {} /\ pc \in {"err", "main_load_ret", "exit"}))
    /\ []((pc \in PollPcs \/ activity # {}) =>
            stages = <<"load", "resolve", "validate">>)
    /\ []((errKind # "none" /\ pc # "exit") => ENABLED Program)
    /\ [][(errKind # "none" /\ pc' # pc) =>
            (pc' = "exit" \/ (pc = "err" /\ pc' = "main_load_ret"))]_vars

\* the last stage before polling failed and the process ended without polling
C3_Witness ==
    /\ pc = "exit"
    /\ errKind = "SchemaMismatchError"
    /\ stages = <<"load", "resolve">>
    /\ activity = {}

(* ------------------------------- scan ---------------------------------- *)

OutKeys == {out[i].key : i \in 1..Len(out)}

\* C4: after a failed read the next key the scan enumerates is the successor
\* of the failed key (the scan ends if the failed key was the last), and no
\* key whose read failed is enumerated again in that scan.
C4_FailedReadSkipsToNext ==
    [][ /\ (pc = "next_key" /\ pc' = "lookup") => key' \notin failedKeys
        /\ (pc = "next_key" /\ justFailed /\ pc' # pc /\ scanEnd' # "error") =>
             LET i == IndexOf(mapKeys, key)
             IN  IF i < Len(mapKeys)
                 THEN pc' = "lookup" /\ key' = mapKeys[i + 1]
                 ELSE pc' = "newline" ]_vars

\* C5: in a completed scan with exactly one failed read over a table whose
\* keys did not change, every key enumerated after the failed read has its
\* pair printed, and unless next-key cut the scan short these are all the
\* keys that follow the failed key in the table.
C5_LaterKeysStillReported ==
    (pc \in {"newline", "sleep"} /\ scanFails = 1 /\ mapKeys = scanStartKeys) =>
        /\ enumAfterFail \subseteq OutKeys
        /\ scanEnd # "error" =>
             \A k \in failedKeys :
               \A i \in (IndexOf(mapKeys, k) + 1)..Len(mapKeys) :
                 mapKeys[i] \in OutKeys

\* the read of the first of two keys failed once and the key after it was
\* still printed
C5_Witness ==
    /\ pc = "sleep"
    /\ scanFails = 1
    /\ scanEnd = "exhausted"
    /\ mapKeys = scanStartKeys
    /\ Len(mapKeys) = 2
    /\ failedKeys = {mapKeys[1]}
    /\ mapKeys[2] \in OutKeys

(* ----------------------------- validator ------------------------------- *)

CheckedFields == <<"key_size", "value_size", "max_entries", "type">>

\* the fields whose non-zero expectation differs from the live value
Mismatching(exp, live) ==
    {i \in 1..4 : exp[CheckedFields[i]] # 0
                  /\ exp[CheckedFields[i]] # live[CheckedFields[i]]}

\* C6: with a valid descriptor and fetched metadata the validator returns 0
\* exactly when every expectation field is zero or equal to the live value;
\* the all-zero expectation accepts every table and key size 4 / value size 8
\* accepts every table of key size 4 and value size 8.
C6_ValidatorIff ==
    (pc = "v_done" /\ stats_map_fd >= 0 /\ infoFetched) =>
        /\ err = 0 <=>
             \A i \in 1..4 :
               \/ map_expect[CheckedFields[i]] = 0
               \/ map_expect[CheckedFields[i]] = mapInfo[CheckedFields[i]]
        /\ map_expect = NoInfo => err = 0
        /\ (/\ map_expect = MainExpect(NoInfo)
            /\ mapInfo.key_size = 4
            /\ mapInfo.value_size = 8) => err = 0

\* key size 4 / value size 8 was accepted for a table whose unchecked
\* max_entries and type are arbitrary
C6_Witness ==
    /\ pc = "v_done"
    /\ infoFetched
    /\ stats_map_fd >= 0
    /\ map_expect = MainExpect(NoInfo)
    /\ mapInfo.max_entries = 20
    /\ mapInfo.type = 6
    /\ err = 0

\* C7: a mismatch is reported for exactly one field, the first mismatching
\* one in the order key size, value size, max entries, type.
C7_FirstMismatchReported ==
    (pc = "v_done" /\ stats_map_fd >= 0 /\ infoFetched /\ err # 0) =>
        LET m == Mismatching(map_expect, mapInfo)
        IN  /\ m # {}
            /\ \E i \in m :
                 /\ \A j \in m : i <= j
                 /\ reported = CheckedFields[i]
            /\ Cardinality(m) = 1 => \A i \in m : reported = CheckedFields[i]

\* value size, max entries and type all mismatch and value size is reported
C7_Witness ==
    /\ pc = "v_done"
    /\ infoFetched
    /\ stats_map_fd >= 0
    /\ Mismatching(map_expect, mapInfo) = {2, 3, 4}
    /\ reported = "value_size"

(* ---------------------------- aggregation ------------------------------ *)

RECURSIVE LimbSum(_, _, _)
\* the sum of limb l of the first n slots, as an unbounded integer
LimbSum(vals, n, l) ==
    IF n = 0 THEN 0 ELSE LimbSum(vals, n - 1, l) + vals[n][l]

\* the arithmetic sum of the n slots reduced modulo 2^64
ArithSumMod64(vals, n) ==
    LET t1 == LimbSum(vals, n, 1)
        t2 == LimbSum(vals, n, 2) + (t1 \div Base)
        t3 == LimbSum(vals, n, 3) + (t2 \div Base)
        t4 == LimbSum(vals, n, 4) + (t3 \div Base)
    IN  <<t1 % Base, t2 % Base, t3 % Base, t4 % Base>>

\* C8: every printed total is the sum modulo 2^64 of the nr_cpus >= 1 slots
\* read for its key.
C8_TotalIsSumMod64 ==
    \A i \in 1..Len(out) :
        /\ nr_cpus >= 1
        /\ Len(out[i].vals) = nr_cpus
        /\ out[i].total = ArithSumMod64(out[i].vals, nr_cpus)

\* a total that wrapped around: a slot holds 2^64 - 1 and another is not zero
C8_Witness ==
    \E i \in 1..Len(out) :
        /\ nr_cpus >= 2
        /\ out[i].vals[1] = Max64
        /\ out[i].vals[2] # Zero64
        /\ out[i].total # Max64

\* the slots read for key k are the table's current ones
ReadCurrent(p) ==
    \A c \in 1..nr_cpus : p.vals[c] = mapVals[p.key][c]

C10_PollingNeverEnds ==
    /\ [][(pc \in PollPcs) => (pc' \in PollPcs)]_vars
    /\ [](pc \in PollPcs => ENABLED Program)
    /\ [](pc = "sleep" => ENABLED Sleep)
    /\ [][(pc = "sleep" /\ pc' # pc) => (pc' = "scan_begin")]_vars

\* a scan with a failed read that next-key ended with an error is over and
\* the next scan is about to start
C10_Witness ==
    /\ pc = "scan_begin"
    /\ scanEnd = "error"
    /\ scanFails >= 1

\* the positions inside the loop of stats_print
ScanPcs == {"next_key", "lookup", "sum"}

\* C11: a cycle is scan, line terminator, sleep: pairs are printed only while
\* the line of the scan is not yet terminated, the scan ends with exactly
\* one line terminator, the sleep follows it, and only the sleep leads to the
\* next scan and its first next-key call.
C11_ScanEmitSleep ==
    /\ [](nlCount <= 1)
    /\ [](pc \in ScanPcs \cup {"newline"} => nlCount = 0)
    /\ [](pc = "sleep" => nlCount = 1)
    /\ [][ /\ Len(out') > Len(out) => (nlCount = 0 /\ nlCount' = 0)
           /\ (pc = "newline" /\ pc' # pc) => (pc' = "sleep" /\ out' = out)
           /\ (pc = "sleep" /\ pc' # pc) => pc' = "scan_begin"
           /\ (pc' = "sleep" /\ pc # "sleep") => pc = "newline"
           /\ (pc' = "scan_begin" /\ pc # "scan_begin") =>
                pc \in {"sleep", "poll"}
           /\ (pc' = "next_key" /\ pc \notin ScanPcs) => pc = "scan_begin"
         ]_vars

\* a scan that printed two pairs and then its line terminator has slept and
\* the next scan is about to begin
C11_Witness ==
    /\ pc = "scan_begin"
    /\ scanEnd = "exhausted"
    /\ Len(out) = 2
    /\ nlCount = 1

\* C12: when opening the object file fails nothing else of the loader is
\* attempted (the object is never opened or loaded, no program is selected,
\* nothing is attached), no table exists or is resolved, and the only steps
\* left are the loader's NULL return and main's exit with EXIT_FAIL_BPF, which
\* is neither EXIT_OK nor EXIT_FAIL.
C12_OpenFailureExit ==
    /\ [](errKind = "LoadOpenError" =>
            /\ objState = "none" /\ closeCount = 0
            /\ ~progFound /\ ~linkAttached /\ loaderRet = "NULL"
            /\ ~hasMap /\ mapKeys = <<>> /\ stats_map_fd = 0
            /\ stages = <<>> /\ activity = {}
            /\ pc \in {"main_load_ret", "exit"}
            /\ (pc = "main_load_ret" => ENABLED Program)
            /\ (pc = "exit" =>
                    /\ exitCode = EXIT_FAIL_BPF
                    /\ exitCode \notin {EXIT_OK, EXIT_FAIL}))
    /\ [][errKind = "LoadOpenError" =>
            (pc' = "exit" /\ loaderVars' = loaderVars /\
             tableVars' = tableVars /\ mainVars' = mainVars)]_vars

\* the open failed and the process has exited with the kernel failure code
C12_Witness ==
    /\ pc = "exit"
    /\ errKind = "LoadOpenError"
    /\ exitCode = EXIT_FAIL_BPF
    /\ objState = "none"

(* ----------------------------- exit codes ------------------------------ *)

FatalKinds == LoaderErrors \cup {"TableNotFoundError", "SchemaMismatchError"}

\* the value main returns for each kind: EXIT_FAIL_BPF when the loader
\* returned NULL or find_map_fd failed, the validator's EXIT_FAIL on a
\* mismatch
ExitCodeOfKind(k) ==
    IF k = "SchemaMismatchError" THEN EXIT_FAIL ELSE EXIT_FAIL_BPF

\* C13 (as stated): a fatal error ends the process with an exit code that is
\* not EXIT_OK and that no other fatal error kind produces.
C13_DistinctExitCodes ==
    (pc = "exit" /\ errKind \in FatalKinds) =>
        /\ exitCode # EXIT_OK
        /\ \A k \in FatalKinds \ {errKind} : exitCode # ExitCodeOfKind(k)

\* C13: a fatal error ends the process at once, without any polling, with an
\* exit code that is not EXIT_OK: EXIT_FAIL for a schema mismatch and the
\* shared EXIT_FAIL_BPF for the four loader errors and a missing table.
C13_ExitCodeByCategory ==
    /\ [](errKind \in FatalKinds =>
            /\ pc \in {"err", "main_load_ret", "exit"}
            /\ activity = {}
            /\ (pc = "exit" =>
                    /\ exitCode = ExitCodeOfKind(errKind)
                    /\ exitCode \in {EXIT_FAIL, EXIT_FAIL_BPF}
                    /\ exitCode # EXIT_OK))
    /\ [][(errKind = "none" /\ errKind' \in FatalKinds) =>
            IF errKind' \in {"TableNotFoundError", "SchemaMismatchError"}
            THEN pc' = "exit"
            ELSE pc' \in {"err", "main_load_ret"}]_vars

\* a missing table ended the process with the code the loader errors use
C13_Witness ==
    /\ pc = "exit"
    /\ errKind = "TableNotFoundError"
    /\ exitCode = ExitCodeOfKind("AttachError")
    /\ stats_map_fd < 0

(* ----------------------------- termination ----------------------------- *)

\* the process keeps running: whenever it can take a step it eventually
\* takes one (every library call and the sleep return)
FairSpec == Spec /\ WF_vars(Program)

\* C14: every scan that has started reaches its end-of-scan line and the
\* poller reaches the interval sleep, whatever reads fail and however often.
C14_ScanCompletes == (pc \in ScanPcs) ~> (pc = "sleep")

(* ------------------------------ ownership ------------------------------ *)

\* C15: the object is never released more than once, never released once
\* polling is reached, and at every exit for a fatal error that follows a
\* successful open it has been released exactly once.
C15_ReleasedOnEveryErrorExit ==
    /\ closeCount <= 1
    /\ (pc \in PollPcs) => (closeCount = 0 /\ objState = "loaded")
    /\ (pc = "exit" /\ errKind # "none" /\ objState # "none") =>
            (closeCount = 1 /\ objState = "closed")

\* the positions at which main and stats_print call the resolver, the
\* validator, bpf_map_get_next_key and bpf_map_lookup_elem
TableCallPcs == {"find_map", "check_info", "next_key", "lookup"}

\* C16: whenever the resolver, the validator or a table read is about to be
\* called, or has been called, the loader has returned the object, the
\* object is loaded with its program attached and it has not been released.
C16_CallsOnLiveObject ==
    /\ []((pc \in TableCallPcs \cup PollPcs \/ stats_map_fd # 0 \/
           infoFetched \/ activity # {}) =>
            /\ objState = "loaded"
            /\ closeCount = 0
            /\ loaderRet = "obj"
            /\ linkAttached)
    /\ [][(pc \in TableCallPcs /\ pc' # pc) =>
            (objState' = "loaded" /\ closeCount' = 0)]_vars

\* a table read is under way on the loaded, unreleased object
C16_Witness ==
    /\ pc = "lookup"
    /\ ci = 1
    /\ stats_map_fd = FindMapFd(TRUE)
    /\ objState = "loaded"
    /\ closeCount = 0

(* ------------------------------ CPU count ------------------------------ *)

\* C17: the CPU count is queried when a cycle begins and only then; during
\* the cycle it equals the count the environment had at that moment, a read
\* fills exactly that many slots before the sum is taken, and every pair of
\* the cycle sums exactly that many slots, although the environment's count
\* may change between cycles.
C17_CpuCountPerCycle ==
    /\ [](pc \in ScanPcs \cup {"newline"} =>
            /\ nr_cpus = envCpus
            /\ ci <= nr_cpus
            /\ (pc = "sum" => ci = nr_cpus)
            /\ \A i \in 1..Len(out) :
                  /\ Len(out[i].vals) = nr_cpus
                  /\ out[i].total = SumValues(out[i].vals, nr_cpus))
    /\ [][ /\ (pc = "scan_begin" /\ pc' # pc) => nr_cpus' = envCpus
           /\ (nr_cpus' # nr_cpus) => pc = "scan_begin"
           /\ (envCpus' # envCpus) => (pc = "sleep" /\ pc' = "sleep")
         ]_vars

\* slot 2 of key 1 was incremented, so two CPUs were possible in an earlier
\* cycle; the running cycle queried one CPU and printed a pair of one slot
C17_Witness ==
    /\ pc = "next_key"
    /\ nr_cpus = 1
    /\ envCpus = 1
    /\ mapVals[1][2] = Add64(InitSlots[1][2], U64Of(1))
    /\ Len(out) = 1
    /\ out[1].key = 1
    /\ Len(out[1].vals) = 1

(* --------------------------- table ownership --------------------------- *)

\* C18: once the load has created the table, no step of main, the resolver,
\* the validator or the poller changes its keys, its slots or its metadata;
\* the only steps that change the table are the probe's increments and
\* insertions, and they change nothing of the userspace process.
C18_UserspaceReadOnly ==
    [][ /\ (Program /\ pc # "load") => UNCHANGED tableVars
        /\ (tableVars' # tableVars /\ pc # "load") =>
              /\ KernIncrement \/ KernInsert
              /\ UNCHANGED <<hasMap, mapInfo, pc, mainVars, scanVars, out>>
      ]_vars

\* a scan has reported both keys of a table that the probe changed during
\* that scan
C18_Witness ==
    /\ pc = "sleep"
    /\ Len(out) = 2
    /\ writes = 1
    /\ mapKeys = scanStartKeys
    /\ mapVals # scanStartVals

(* ------------------------------ concurrency ---------------------------- *)

\* C19: while a scan runs with the probe writing in between, every slot the
\* running read has copied and every slot value behind a printed total is a
\* value that slot of that key held at some instant since the scan began,
\* and the printed total is the sum of those slot values modulo 2^64.
C19_ValuesWereHeld ==
    (pc \in ScanPcs \cup {"newline"}) =>
        /\ \A i \in 1..Len(out) :
              /\ \A c \in 1..nr_cpus : out[i].vals[c] \in held[out[i].key][c]
              /\ out[i].total = ArithSumMod64(out[i].vals, nr_cpus)
        /\ (pc \in {"lookup", "sum"}) =>
              \A c \in 1..ci : values[c] \in held[key][c]

\* a pair was printed whose first slot is the value at the start of the scan
\* and whose second slot is the value the probe stored during the scan
C19_Witness ==
    /\ pc = "next_key"
    /\ nr_cpus = 2
    /\ Len(out) >= 1
    /\ LET p == out[Len(out)]
       IN  /\ p.key \in KeySet(scanStartKeys)
           /\ p.vals[1] = scanStartVals[p.key][1]
           /\ p.vals[2] # scanStartVals[p.key][2]
           /\ Cardinality(held[p.key][2]) = 2

(* --------------------------- next-key failure -------------------------- *)

\* C20: a next-key failure other than exhaustion ends the scan the way
\* exhaustion does: the step prints nothing and leaves the loop, the keys
\* not yet reported stay unreported, the line terminator is printed, the
\* process neither exits nor records an error, and after the sleep the next
\* scan begins with no previous key.
C20_NextKeyErrorEndsScan ==
    /\ [](scanEnd = "error" =>
            /\ pc \in {"newline", "sleep", "scan_begin"}
            /\ errKind = "none"
            /\ exitCode = EXIT_OK
            /\ objState = "loaded"
            /\ nlCount = (IF pc = "newline" THEN 0 ELSE 1))
    /\ [][ /\ (scanEnd = "none" /\ scanEnd' \in {"error", "exhausted"}) =>
                /\ pc = "next_key" /\ pc' = "newline"
                /\ UNCHANGED <<out, nlCount, scanVars, tableVars>>
           /\ (scanEnd = "error" /\ pc' # pc) =>
                \/ pc = "newline" /\ pc' = "sleep" /\ out' = out
                \/ pc = "sleep" /\ pc' = "scan_begin" /\ out' = out
                \/ /\ pc = "scan_begin" /\ pc' = "next_key"
                   /\ ~prevSet' /\ out' = <<>> /\ scanEnd' = "none"
         ]_vars

\* next-key failed after the first of two keys was reported: the second key
\* stayed unreported, the line was ended and the poller has slept
C20_Witness ==
    /\ pc = "scan_begin"
    /\ scanEnd = "error"
    /\ failedKeys = {}
    /\ mapKeys = scanStartKeys
    /\ Len(mapKeys) = 2
    /\ Len(out) = 1
    /\ out[1].key = mapKeys[1]
    /\ nlCount = 1

====
